---- MODULE Spec2Model ----
(***************************************************************************)
(* process_job (automoss/apps/jobs/tasks.py): the celery task that drives  *)
(* one MOSS job through upload, processing and parsing, with a retry loop, *)
(* and records every transition as a JobEvent.                             *)
(*                                                                         *)
(* The persisted rows (Job, JobEvent, MOSSResult, Match) are shared; every *)
(* invocation of the task works on its own in-memory copy of the Job row   *)
(* and writes the whole copy back with job.save().                         *)
(***************************************************************************)
EXTENDS Integers, Sequences, FiniteSets, TLC

\* ------------------------------------------------------------------ bounds
MaxTriggers == 2        \* deliveries of the task for the one job id (racing specification)
MaxFiles == 1           \* files per submission directory
MaxMatches == 1         \* raw matches in a MOSS result
MinRetryTime == 1       \* scaled MIN_RETRY_TIME
MaxRetryTime == 2       \* scaled MAX_RETRY_TIME
MaxRetryDuration == 2   \* scaled MAX_RETRY_DURATION
MaxFaults == 3          \* failures the services raise in one behaviour

\* --------------------------------------------------------------- settings
INQUEUE_STATUS == "QUEUED"
UPLOADING_STATUS == "UPLOADING"
PROCESSING_STATUS == "PROCESSING"
PARSING_STATUS == "PARSING"
COMPLETED_STATUS == "COMPLETED"
FAILED_STATUS == "FAILED"
Statuses ==
  {INQUEUE_STATUS, UPLOADING_STATUS, PROCESSING_STATUS, PARSING_STATUS,
   COMPLETED_STATUS, FAILED_STATUS}

UPLOADING_EVENT == "UPLOADING"
PROCESSING_EVENT == "PROCESSING"
PARSING_EVENT == "PARSING"
COMPLETED_EVENT == "COMPLETED"
FAILED_EVENT == "FAILED"
RETRY_EVENT == "RETRY"

FILES_NAME == "files"
SUBMISSION_TYPES == {"files", "base_files"}
FIRST_RETRY_INSTANT == TRUE

\* The job the task is triggered for, and another job owning submissions.
JobId == "j1"
OtherJobId == "j2"

\* ------------------------------------------------------------ collaborators
\* Exceptions an attempt can end with.
RecoverableMossException == "RecoverableMossException"
SocketError == "socket.error"
EmptyResponse == "EmptyResponse"
FatalMossException == "FatalMossException"
OtherException == "Exception"
Exceptions ==
  {RecoverableMossException, SocketError, EmptyResponse, FatalMossException,
   OtherException}

LoadStatus == {"NORMAL", "UNDER_LOAD", "DOWN"}

NoUrl == "None"
BadUrl == "not-a-moss-url"
GoodUrl == "http://moss.stanford.edu/results/1"
is_valid_moss_url(u) == u = GoodUrl

\* Submission rows: submission_id per owning job.
Submissions ==
  {[job |-> JobId, submission_id |-> "a"], [job |-> JobId, submission_id |-> "b"],
   [job |-> OtherJobId, submission_id |-> "c"]}
Names == {"a", "b", "c"}
RawMatches == [name_1 : Names, name_2 : Names]
SeqsUpTo(S, n) == UNION {[1..k -> S] : k \in 0..n}
NoResult == [none |-> TRUE]
Results == [url : {GoodUrl}, matches : SeqsUpTo(RawMatches, MaxMatches)]

\* A directory of the upload area: absent, or a listing of file sizes.
NoDir == [absent |-> TRUE]
Dirs == {NoDir} \cup {[sizes |-> s] : s \in SeqsUpTo(0..1, MaxFiles)}

\* Optional values (dates, results) are sets of at most one element.
Null == {}

VARIABLES
  dbJob,      \* the persisted Job row: status, start_date, completion_date
  fs,         \* the upload area: submission type -> directory
  events,     \* the JobEvent table: per creating invocation, in creation order
  mossResults,\* the MOSSResult table
  matches,    \* the Match table
  clock,      \* now()
  faults,     \* failures the services can still raise
  defects,    \* whether the pinger and the database may fail as well
  inv         \* the invocations of process_job: per delivery, its locals

vars == <<dbJob, fs, events, mossResults, matches, clock, faults, defects, inv>>

Procs == 1..MaxTriggers

\* ------------------------------------------------------------------ helpers
Event(type, msg) ==
  [type |-> type, msg |-> msg, attempt |-> 0, error |-> "None", wait |-> 0, n |-> 0]

\* Mutant: the message counts attempts from zero.
RetryEventFromZero(attempt, error, wait) ==
  [type |-> RETRY_EVENT, msg |-> "Retrying", attempt |-> attempt - 1,
   error |-> error, wait |-> wait, n |-> 0]

\* f'(Attempt {attempt}) Error: {error} | Retrying in {time_to_sleep} seconds'
RetryEvent(attempt, error, wait) ==
  [type |-> RETRY_EVENT, msg |-> "Retrying", attempt |-> attempt,
   error |-> error, wait |-> wait, n |-> 0]

\* f'Result finished parsing: {len(result.matches)} matches detected.'
ParsedEvent(n) ==
  [type |-> PARSING_EVENT, msg |-> "Result finished parsing",
   attempt |-> 0, error |-> "None", wait |-> 0, n |-> n]

Emit(p, e) == events' = [events EXCEPT ![p] = Append(@, e)]

\* Mutant: the guard turns away finished jobs only.
AdmittedUnlessFinished(status) == status \notin {COMPLETED_STATUS, FAILED_STATUS}

\* job.status != INQUEUE_STATUS is the early return.
Admitted(status) == status = INQUEUE_STATUS

\* Mutant: the size test is >= 0, so empty files are submitted too.
RECURSIVE NonEmptyOrEmpty(_, _)
NonEmptyOrEmpty(sizes, i) ==
  IF i > Len(sizes) THEN <<>>
  ELSE (IF sizes[i] >= 0 THEN <<i>> ELSE <<>>) \o NonEmptyOrEmpty(sizes, i + 1)

\* The non-empty files of a directory listing (os.path.getsize(file_path) > 0).
RECURSIVE NonEmpty(_, _)
NonEmpty(sizes, i) ==
  IF i > Len(sizes) THEN <<>>
  ELSE (IF sizes[i] > 0 THEN <<i>> ELSE <<>>) \o NonEmpty(sizes, i + 1)

\* paths: one entry per submission type whose directory exists.
BuildPaths(f) ==
  [t \in {t \in SUBMISSION_TYPES : f[t] # NoDir} |-> NonEmpty(f[t].sizes, 1)]

\* not paths.get(FILES_NAME)
NoFilesSupplied(paths) ==
  \/ FILES_NAME \notin DOMAIN paths
  \/ paths[FILES_NAME] = <<>>

\* Mutant: an empty response is retried whatever the pinger answers.
ClassifyIgnoresLoad(e, load) ==
  IF e \in {RecoverableMossException, SocketError, EmptyResponse} THEN "retry"
  ELSE "abort"

\* Mutant: an empty response always ends the loop.
ClassifyEmptyAborts(e, load) ==
  IF e \in {RecoverableMossException, SocketError} THEN "retry" ELSE "abort"

\* Mutant: the broad except clause falls through to the retry.
ClassifyRetriesUnknown(e, load) ==
  IF e \in {RecoverableMossException, SocketError, OtherException} THEN "retry"
  ELSE IF e = EmptyResponse
       THEN (IF load = "NORMAL" THEN "abort" ELSE "retry")
  ELSE "abort"

\* The except chain of the attempt: what the loop does with an exception.
Classify(e, load) ==
  IF e \in {RecoverableMossException, SocketError} THEN "retry"
  ELSE IF e = EmptyResponse
       THEN (IF load = "NORMAL" THEN "abort" ELSE "retry")
  ELSE "abort"

\* Whether the except clause taken binds `error` (the broad clauses do not).
BindsError(e) == e \in {RecoverableMossException, SocketError, EmptyResponse}

RECURSIVE Sum(_)
Sum(s) == IF s = <<>> THEN 0 ELSE s[1] + Sum(Tail(s))

\* The delays retry() may yield for its n-th pair: none for an instant
\* first attempt, else the jittered exponential delay clamped to
\* [MIN_RETRY_TIME, MAX_RETRY_TIME].
RetryDelays(n) ==
  IF n = 1 /\ FIRST_RETRY_INSTANT THEN {0} ELSE MinRetryTime..MaxRetryTime

\* retry() ends once the waits it has handed out, with the next one, would
\* exceed MAX_RETRY_DURATION.
RetryStops(sched, w) == Sum(sched) + w > MaxRetryDuration

\* Mutant: the lookup is by submission_id alone, across jobs.
FilterAnyJob(job, name) == {s \in Submissions : s.submission_id = name}

\* Submission.objects.filter(job=job, submission_id=name)
Filter(job, name) ==
  {s \in Submissions : s.job = job /\ s.submission_id = name}

\* .first() of a non-empty query set
First(rows) == CHOOSE s \in rows : TRUE

\* Both lookups of a raw match found a submission.
Resolves(job, name) == Filter(job, name) # {}

\* Match rows a result materializes to: one per raw match whose two names
\* resolve, referencing the MOSSResult's job and the two Submission rows.
RECURSIVE Materialize(_, _, _)
Materialize(job, ms, i) ==
  IF i > Len(ms) THEN <<>>
  ELSE (IF Resolves(job, ms[i].name_1) /\ Resolves(job, ms[i].name_2)
        THEN <<[job |-> job,
                first_submission |-> First(Filter(job, ms[i].name_1)),
                second_submission |-> First(Filter(job, ms[i].name_2))]>>
        ELSE <<>>) \o Materialize(job, ms, i + 1)

\* One past attempt, as the loop left it: where it ended, with which
\* exception, what the pinger answered, and what the loop did next.
Outcome(attempt, at, exc, load, decision) ==
  [attempt |-> attempt, at |-> at, exc |-> exc, load |-> load, decision |-> decision]

Set(p, r) == inv' = [inv EXCEPT ![p] = r]

\* ----------------------------------------------------------------- initial
QueuedRow == [status |-> INQUEUE_STATUS, start_date |-> Null, completion_date |-> Null]

Idle ==
  [pc |-> "idle", found |-> QueuedRow, job |-> QueuedRow,
   paths |-> <<>>, url |-> NoUrl, result |-> NoResult, attempt |-> 0,
   time_to_sleep |-> 0, sched |-> <<>>, exhausted |-> FALSE, slept |-> 0,
   exc |-> "None", load |-> "None", error |-> "None", stage |-> 0, at |-> "None",
   ret |-> "None", raised |-> FALSE, passed |-> FALSE, hist |-> <<>>,
   calls |-> [create |-> 0, fetch |-> 0, probe |-> 0]]

\* Rows a job can be found in: queued and never run, interrupted in the
\* middle of an earlier run, or finished by one.
JobRows ==
  {QueuedRow}
  \cup {[status |-> s, start_date |-> {0}, completion_date |-> Null] :
          s \in {UPLOADING_STATUS, PROCESSING_STATUS, PARSING_STATUS, FAILED_STATUS}}
  \cup {[status |-> s, start_date |-> {0}, completion_date |-> {0}] :
          s \in {COMPLETED_STATUS, FAILED_STATUS}}

InitCommon ==
  /\ fs \in [SUBMISSION_TYPES -> Dirs]
  /\ events = [p \in Procs |-> <<>>]
  /\ mossResults = <<>>
  /\ matches = <<>>
  /\ clock = 1

\* One delivery of the task, for a job in any stored state.
Init ==
  /\ InitCommon
  /\ dbJob \in JobRows
  /\ faults = MaxFaults
  /\ defects = FALSE
  /\ inv = [p \in Procs |-> IF p = 1 THEN [Idle EXCEPT !.pc = "start"] ELSE Idle]

\* The task delivered more than once for a queued job, the services
\* failing at most once.
InitRace ==
  /\ InitCommon
  /\ fs["base_files"] = NoDir
  /\ dbJob = QueuedRow
  /\ faults = 1
  /\ defects = FALSE
  /\ inv = [p \in Procs |-> [Idle EXCEPT !.pc = "start"]]

\* One delivery for a queued job, in an environment where the pinger can
\* raise instead of answering and the database can fail while the result
\* is stored.
InitDefect ==
  /\ InitCommon
  /\ fs["base_files"] = NoDir
  /\ dbJob = QueuedRow
  /\ faults = MaxFaults
  /\ defects = TRUE
  /\ inv = [p \in Procs |-> IF p = 1 THEN [Idle EXCEPT !.pc = "start"] ELSE Idle]

\* One delivery for a queued job.
InitQueued ==
  /\ InitCommon
  /\ fs["base_files"] = NoDir
  /\ dbJob = QueuedRow
  /\ faults = MaxFaults
  /\ defects = FALSE
  /\ inv = [p \in Procs |-> IF p = 1 THEN [Idle EXCEPT !.pc = "start"] ELSE Idle]

\* ----------------------------------------------------------------- actions
\* Lines 58-68: load the row; only a queued job is started.
GetJob(p) ==
  /\ inv[p].pc = "start"
  /\ IF ~Admitted(dbJob.status)
     THEN /\ Set(p, [inv[p] EXCEPT !.pc = "done", !.found = dbJob, !.job = dbJob])
          /\ UNCHANGED clock
     ELSE /\ Set(p, [inv[p] EXCEPT !.pc = "paths", !.passed = TRUE, !.found = dbJob,
                       !.job = [dbJob EXCEPT !.start_date = {clock}]])
          /\ clock' = clock + 1
  /\ UNCHANGED <<dbJob, fs, defects, events, mossResults, matches, faults>>

\* Lines 74-88: collect the non-empty files of each submission type.
CollectPaths(p) ==
  /\ inv[p].pc = "paths"
  /\ LET paths == BuildPaths(fs) IN
       Set(p, [inv[p] EXCEPT !.paths = paths,
                 !.pc = IF NoFilesSupplied(paths) THEN "nofiles" ELSE "loop"])
  /\ UNCHANGED <<dbJob, fs, defects, events, mossResults, matches, clock, faults>>

\* Lines 89-93: no files supplied.
FailNoFiles(p) ==
  /\ inv[p].pc = "nofiles"
  /\ LET r == [inv[p] EXCEPT !.job.status = FAILED_STATUS, !.pc = "done"] IN
       /\ Set(p, r)
       /\ dbJob' = r.job
  /\ Emit(p, Event(FAILED_EVENT, "No files supplied"))
  /\ UNCHANGED <<fs, defects, mossResults, matches, clock, faults>>

\* Line 99: the next (attempt, time_to_sleep) of retry(), or its end.
NextAttempt(p) ==
  /\ inv[p].pc = "loop"
  /\ \E w \in RetryDelays(Len(inv[p].sched) + 1) :
       IF RetryStops(inv[p].sched, w)
       THEN Set(p, [inv[p] EXCEPT !.pc = "finalize", !.exhausted = TRUE])
       ELSE Set(p, [inv[p] EXCEPT !.pc = "try", !.attempt = Len(inv[p].sched) + 1,
                      !.time_to_sleep = w, !.sched = Append(@, w),
                      !.error = "None", !.exc = "None", !.load = "None",
                      !.at = "None"])
  /\ UNCHANGED <<dbJob, fs, defects, events, mossResults, matches, clock, faults>>

\* Mutant: every attempt starts with the upload, whether or not a url exists.
BeginAttemptAlwaysUploads(p) ==
  /\ inv[p].pc = "try"
  /\ LET r == [inv[p] EXCEPT !.job.status = UPLOADING_STATUS,
                 !.pc = "generate_url", !.stage = 0, !.at = "generate_url",
                 !.calls.create = @ + 1] IN
       /\ Set(p, r)
       /\ dbJob' = r.job
  /\ UNCHANGED <<fs, defects, events, mossResults, matches, clock, faults>>

\* Lines 104-106: without a valid url the attempt starts with the upload.
BeginAttempt(p) ==
  /\ inv[p].pc = "try"
  /\ IF ~is_valid_moss_url(inv[p].url)
     THEN LET r == [inv[p] EXCEPT !.job.status = UPLOADING_STATUS,
                      !.pc = "generate_url", !.stage = 0, !.at = "generate_url",
                      !.calls.create = @ + 1] IN
            /\ Set(p, r)
            /\ dbJob' = r.job
     ELSE /\ Set(p, [inv[p] EXCEPT !.pc = "parsing"])
          /\ UNCHANGED dbJob
  /\ UNCHANGED <<fs, defects, events, mossResults, matches, clock, faults>>

\* Mutant: every callback only appends its event.
UrlCallbackOnlyLogs(p) ==
  /\ inv[p].pc = "generate_url"
  /\ inv[p].stage < 4
  /\ LET k == inv[p].stage + 1 IN
       /\ Set(p, [inv[p] EXCEPT !.stage = k])
       /\ Emit(p,
            CASE k = 1 -> Event(UPLOADING_EVENT, "Started uploading files to MOSS")
              [] k = 2 -> Event(UPLOADING_EVENT, "Finished uploading")
              [] k = 3 -> Event(PROCESSING_EVENT, "Started generating similarity report")
              [] k = 4 -> Event(PROCESSING_EVENT, "Finished processing"))
  /\ UNCHANGED <<dbJob, fs, defects, mossResults, matches, clock, faults>>

\* Lines 110-131: MOSS.generate_url fires the next callback.
UrlCallback(p) ==
  /\ inv[p].pc = "generate_url"
  /\ inv[p].stage < 4
  /\ LET k == inv[p].stage + 1
         r == [inv[p] EXCEPT !.stage = k,
                 !.job.status = IF k = 3 THEN PROCESSING_STATUS ELSE @]
     IN
       /\ Set(p, r)
       /\ dbJob' = IF k = 3 THEN r.job ELSE dbJob
       /\ Emit(p,
            CASE k = 1 -> Event(UPLOADING_EVENT, "Started uploading files to MOSS")
              [] k = 2 -> Event(UPLOADING_EVENT, "Finished uploading")
              [] k = 3 -> Event(PROCESSING_EVENT, "Started generating similarity report")
              [] k = 4 -> Event(PROCESSING_EVENT, "Finished processing"))
  /\ UNCHANGED <<fs, defects, mossResults, matches, clock, faults>>

\* Line 115: MOSS.generate_url returns the url.
UrlReturn(p) ==
  /\ inv[p].pc = "generate_url"
  /\ inv[p].stage = 4
  /\ \E u \in {GoodUrl, BadUrl} :
       Set(p, [inv[p] EXCEPT !.url = u, !.pc = "parsing"])
  /\ UNCHANGED <<dbJob, fs, defects, events, mossResults, matches, clock, faults>>

\* Line 115: MOSS.generate_url, or a callback it fires, raises.
UrlRaise(p) ==
  /\ inv[p].pc = "generate_url"
  /\ faults > 0
  /\ faults' = faults - 1
  /\ \E e \in Exceptions :
       Set(p, [inv[p] EXCEPT !.exc = e, !.pc = "except"])
  /\ UNCHANGED <<dbJob, fs, defects, events, mossResults, matches, clock>>

\* Lines 136-141: the parsing step starts.
StartParsing(p) ==
  /\ inv[p].pc = "parsing"
  /\ LET r == [inv[p] EXCEPT !.job.status = PARSING_STATUS,
                 !.pc = "generate_report", !.at = "generate_report",
                 !.calls.fetch = @ + 1] IN
       /\ Set(p, r)
       /\ dbJob' = r.job
  /\ Emit(p, Event(PARSING_EVENT, "Start parsing report"))
  /\ UNCHANGED <<fs, defects, mossResults, matches, clock, faults>>

\* Lines 144-149: MOSS.generate_report returns the result behind a url of
\* the service.
ReportReturn(p) ==
  /\ inv[p].pc = "generate_report"
  /\ inv[p].url = GoodUrl
  /\ \E res \in Results :
       /\ Set(p, [inv[p] EXCEPT !.result = res, !.pc = "finalize",
                    !.hist = Append(@, Outcome(inv[p].attempt, inv[p].at,
                                               "None", "None", "success"))])
       /\ Emit(p, ParsedEvent(Len(res.matches)))
  /\ UNCHANGED <<dbJob, fs, defects, mossResults, matches, clock, faults>>

\* Mutant: a failed parsing step forgets the url.
ReportRaiseDropsUrl(p) ==
  /\ inv[p].pc = "generate_report"
  /\ faults > 0
  /\ faults' = faults - 1
  /\ \E e \in Exceptions :
       Set(p, [inv[p] EXCEPT !.exc = e, !.url = NoUrl, !.pc = "except"])
  /\ UNCHANGED <<dbJob, fs, defects, events, mossResults, matches, clock>>

\* Line 144: MOSS.generate_report raises.
ReportRaise(p) ==
  /\ inv[p].pc = "generate_report"
  /\ faults > 0
  /\ faults' = faults - 1
  /\ \E e \in Exceptions :
       Set(p, [inv[p] EXCEPT !.exc = e, !.pc = "except"])
  /\ UNCHANGED <<dbJob, fs, defects, events, mossResults, matches, clock>>

\* What Pinger.determine_load() (line 158) can do for the exception caught:
\* it is called for an empty response only, and answers with a load status
\* unless the environment lets it raise.
ProbeOutcomes(e) ==
  IF e # EmptyResponse THEN {"None"}
  ELSE LoadStatus \cup (IF defects THEN {"raise"} ELSE {})

\* Lines 151-180: the except clauses; an empty response asks the pinger.
Handle(p) ==
  /\ inv[p].pc = "except"
  /\ LET e == inv[p].exc IN
       \E load \in ProbeOutcomes(e) :
         IF load = "raise"
         THEN \* raised inside the except clause: no other clause catches it
              Set(p, [inv[p] EXCEPT
                        !.error = e,
                        !.load = load,
                        !.calls.probe = @ + 1,
                        !.hist = Append(@, Outcome(inv[p].attempt, inv[p].at, e,
                                                   load, "escape")),
                        !.raised = TRUE,
                        !.pc = "raised"])
         ELSE LET d == Classify(e, load) IN
           Set(p, [inv[p] EXCEPT
                     !.error = IF BindsError(e) THEN e ELSE @,
                     !.load = load,
                     !.calls.probe = IF e = EmptyResponse THEN @ + 1 ELSE @,
                     !.hist = Append(@, Outcome(inv[p].attempt, inv[p].at, e, load, d)),
                     !.pc = IF d = "retry" THEN "retry" ELSE "finalize"])
  /\ UNCHANGED <<dbJob, fs, defects, events, mossResults, matches, clock, faults>>

\* Mutant: an instant retry (no wait) is not recorded.
LogRetryUnlessInstant(p) ==
  /\ inv[p].pc = "retry"
  /\ IF inv[p].time_to_sleep > 0
     THEN Emit(p, RetryEvent(inv[p].attempt, inv[p].error, inv[p].time_to_sleep))
     ELSE UNCHANGED events
  /\ Set(p, [inv[p] EXCEPT !.pc = "sleep"])
  /\ UNCHANGED <<dbJob, fs, defects, mossResults, matches, clock, faults>>

\* Lines 183-187: the retry is recorded.
LogRetry(p) ==
  /\ inv[p].pc = "retry"
  /\ Emit(p, RetryEvent(inv[p].attempt, inv[p].error, inv[p].time_to_sleep))
  /\ Set(p, [inv[p] EXCEPT !.pc = "sleep"])
  /\ UNCHANGED <<dbJob, fs, defects, mossResults, matches, clock, faults>>

\* Mutant: the wait is the longest delay, not the one retry() yielded.
SleepMaxRetryTime(p) ==
  /\ inv[p].pc = "sleep"
  /\ Set(p, [inv[p] EXCEPT !.pc = "loop", !.slept = @ + MaxRetryTime])
  /\ UNCHANGED <<dbJob, fs, defects, events, mossResults, matches, clock, faults>>

\* Line 189: time.sleep(time_to_sleep).
Sleep(p) ==
  /\ inv[p].pc = "sleep"
  /\ Set(p, [inv[p] EXCEPT !.pc = "loop", !.slept = @ + inv[p].time_to_sleep])
  /\ UNCHANGED <<dbJob, fs, defects, events, mossResults, matches, clock, faults>>

\* Lines 191-200: completion date; a run without result fails.
Finalize(p) ==
  /\ inv[p].pc = "finalize"
  /\ clock' = clock + 1
  /\ IF inv[p].result = NoResult
     THEN /\ Set(p, [inv[p] EXCEPT !.job.completion_date = {clock},
                       !.job.status = FAILED_STATUS, !.pc = "save"])
          /\ Emit(p, Event(FAILED_EVENT, ""))
     ELSE /\ Set(p, [inv[p] EXCEPT !.job.completion_date = {clock},
                       !.pc = "materialize"])
          /\ UNCHANGED events
  /\ UNCHANGED <<dbJob, fs, defects, mossResults, matches, faults>>

\* Mutant: the result is stored but the status assignment is missing.
StoreResultKeepsStatus(p) ==
  /\ inv[p].pc = "materialize"
  /\ mossResults' = Append(mossResults, [job |-> JobId, url |-> inv[p].result.url])
  /\ matches' = matches \o Materialize(JobId, inv[p].result.matches, 1)
  /\ Emit(p, Event(COMPLETED_EVENT, ""))
  /\ Set(p, [inv[p] EXCEPT !.ret = inv[p].result.url, !.pc = "save"])
  /\ UNCHANGED <<dbJob, fs, defects, clock, faults>>

\* Where storing a result can fail: at MOSSResult.objects.create (0), in
\* the k-th round of the match loop, or at the COMPLETED event (one past the
\* last round); ok is the run of lines 203-228 to the return.
StoreOutcomes(ms) ==
  {[ok |-> TRUE, at |-> 0]}
  \cup (IF defects THEN {[ok |-> FALSE, at |-> k] : k \in 0..(Len(ms) + 1)} ELSE {})

\* Lines 203-228: the result and its matches are stored; an exception
\* leaves the try block through the finally clause.
StoreResult(p) ==
  /\ inv[p].pc = "materialize"
  /\ \E o \in StoreOutcomes(inv[p].result.matches) :
       IF o.ok
       THEN /\ mossResults' =
                 Append(mossResults, [job |-> JobId, url |-> inv[p].result.url])
            /\ matches' = matches \o Materialize(JobId, inv[p].result.matches, 1)
            /\ Emit(p, Event(COMPLETED_EVENT, ""))
            /\ Set(p, [inv[p] EXCEPT !.job.status = COMPLETED_STATUS,
                         !.ret = inv[p].result.url, !.pc = "save"])
       ELSE /\ mossResults' =
                 IF o.at = 0 THEN mossResults
                 ELSE Append(mossResults, [job |-> JobId, url |-> inv[p].result.url])
            /\ matches' =
                 IF o.at = 0 THEN matches
                 ELSE matches \o
                        Materialize(JobId, SubSeq(inv[p].result.matches, 1, o.at - 1), 1)
            /\ UNCHANGED events
            /\ Set(p, [inv[p] EXCEPT !.raised = TRUE, !.pc = "save"])
  /\ UNCHANGED <<dbJob, fs, defects, clock, faults>>

\* Mutant: the row is saved at the end of the success path only.
FinalSaveOnSuccessOnly(p) ==
  /\ inv[p].pc = "save"
  /\ dbJob' = IF inv[p].result # NoResult THEN inv[p].job ELSE dbJob
  /\ Set(p, [inv[p] EXCEPT !.pc = IF inv[p].raised THEN "raised" ELSE "done"])
  /\ UNCHANGED <<fs, defects, events, mossResults, matches, clock, faults>>

\* Line 231: the finally clause saves the row (job.save() writes the whole
\* in-memory row over the persisted one).
FinalSave(p) ==
  /\ inv[p].pc = "save"
  /\ dbJob' = inv[p].job
  /\ Set(p, [inv[p] EXCEPT !.pc = IF inv[p].raised THEN "raised" ELSE "done"])
  /\ UNCHANGED <<fs, defects, events, mossResults, matches, clock, faults>>

Next ==
  \E p \in Procs :
    \/ GetJob(p)
    \/ CollectPaths(p)
    \/ FailNoFiles(p)
    \/ NextAttempt(p)
    \/ BeginAttempt(p)
    \/ UrlCallback(p)
    \/ UrlReturn(p)
    \/ UrlRaise(p)
    \/ StartParsing(p)
    \/ ReportReturn(p)
    \/ ReportRaise(p)
    \/ Handle(p)
    \/ LogRetry(p)
    \/ Sleep(p)
    \/ Finalize(p)
    \/ StoreResult(p)
    \/ FinalSave(p)

Spec == Init /\ [][Next]_vars

SpecRace == InitRace /\ [][Next]_vars

SpecDefect == InitDefect /\ [][Next]_vars

\* The task runs to its end: every statement that can be executed is
\* executed, every call returns or raises, every sleep ends.
SpecFair == InitQueued /\ [][Next]_vars /\ WF_vars(Next)

\* ------------------------------------------------------------ properties
NoCalls == [create |-> 0, fetch |-> 0, probe |-> 0]

Terminal == {COMPLETED_STATUS, FAILED_STATUS}

\* Number of events of a type an invocation has appended.
CountType(p, t) == Cardinality({i \in DOMAIN events[p] : events[p][i].type = t})

\* The upload area holds a non-empty file of the required category.
HasValidFiles ==
  /\ fs[FILES_NAME] # NoDir
  /\ \E i \in DOMAIN fs[FILES_NAME].sizes : fs[FILES_NAME].sizes[i] > 0

\* C1: a run that finds the job in any status other than QUEUED returns at
\* once and leaves everything as it was: the persisted row (status,
\* start_date, completion_date) and its own copy are the row it loaded, it
\* has appended no JobEvent, stored no result and called no service.
C1_NonQueuedIsNoOp ==
  \A p \in Procs :
    (inv[p].pc \notin {"idle", "start"} /\ inv[p].found.status # INQUEUE_STATUS) =>
      /\ inv[p].pc = "done"
      /\ dbJob = inv[p].found
      /\ inv[p].job = inv[p].found
      /\ events[p] = <<>>
      /\ inv[p].calls = NoCalls
      /\ inv[p].slept = 0
      /\ mossResults = <<>>
      /\ matches = <<>>
      /\ inv[p].ret = "None"

\* A failed job with valid files was triggered again and the run returned.
C1_Witness ==
  \E p \in Procs :
    /\ inv[p].pc = "done"
    /\ inv[p].found.status = FAILED_STATUS
    /\ HasValidFiles

\* C2: of the invocations triggered for one job, at most one passes the
\* QUEUED guard and goes on to the attempt loop.
C2_AtMostOneLiveRun ==
  Cardinality({p \in Procs : inv[p].passed}) <= 1

\* C3: after a run that passed the guard the persisted status is COMPLETED or
\* FAILED and the persisted completion_date is set; while the persisted
\* status is QUEUED, UPLOADING, PROCESSING or PARSING it is not set.
C3_CompletionDateOnTerminal ==
  /\ \A p \in Procs :
       (inv[p].pc = "done" /\ inv[p].passed) =>
         (dbJob.status \in Terminal /\ dbJob.completion_date # Null)
  /\ dbJob.status \notin Terminal => dbJob.completion_date = Null

\* C4: a run that passed the guard with no non-empty file of the required
\* category never enters the attempt loop, calls no service and takes no
\* wait; when it has returned, the status is FAILED, it returned nothing and
\* its only event is FAILED 'No files supplied'.
C4_NoFilesFailsAtOnce ==
  \A p \in Procs :
    (inv[p].passed /\ ~HasValidFiles) =>
      /\ inv[p].pc \in {"paths", "nofiles", "done"}
      /\ inv[p].calls = NoCalls
      /\ inv[p].sched = <<>>
      /\ inv[p].slept = 0
      /\ inv[p].pc # "done" => events[p] = <<>>
      /\ inv[p].pc = "done" =>
           /\ dbJob.status = FAILED_STATUS
           /\ inv[p].ret = "None"
           /\ events[p] = <<Event(FAILED_EVENT, "No files supplied")>>

\* The directory of the required category holds only an empty file, and the
\* run has returned.
C4_Witness ==
  \E p \in Procs :
    /\ inv[p].pc = "done"
    /\ inv[p].passed
    /\ fs[FILES_NAME] # NoDir
    /\ fs[FILES_NAME].sizes # <<>>
    /\ ~HasValidFiles

RetriesOf(p, i) ==
  {k \in DOMAIN events[p] :
     events[p][k].type = RETRY_EVENT /\ events[p][k].attempt = i}

\* Number of events with a message an invocation has appended.
CountMsg(p, m) == Cardinality({i \in DOMAIN events[p] : events[p][i].msg = m})

\* The waits the scheduler supplied for the attempts before the i-th.
WaitsBefore(p, i) == Sum(SubSeq(inv[p].sched, 1, i - 1))

\* Two transient transport errors, then success on the third attempt.
TwoTransientThenSuccess(p) ==
  /\ inv[p].pc = "done"
  /\ Len(inv[p].hist) = 3
  /\ inv[p].hist[1].exc = SocketError
  /\ inv[p].hist[2].exc = SocketError
  /\ inv[p].hist[3].decision = "success"

\* C6 as claimed: after two transient transport errors and a success on the
\* third attempt the run has appended exactly two RETRY events, exactly one
\* PARSING event and exactly one COMPLETED event, the status is COMPLETED and
\* the url is returned.
C6_OnePARSINGEvent ==
  \A p \in Procs :
    TwoTransientThenSuccess(p) =>
      /\ CountType(p, RETRY_EVENT) = 2
      /\ CountType(p, PARSING_EVENT) = 1
      /\ CountType(p, COMPLETED_EVENT) = 1
      /\ dbJob.status = COMPLETED_STATUS
      /\ inv[p].ret = inv[p].result.url

\* C6 amended: after two transient transport errors and a success on the
\* third attempt the run has appended exactly two RETRY events, exactly one
\* COMPLETED event, and as PARSING events one 'Start parsing report' per
\* attempt that reached the parsing step and exactly one 'Result finished
\* parsing' with the number of matches (two to four PARSING events); the
\* status is COMPLETED and the url is returned.
C6_RetriesThenCompleted ==
  \A p \in Procs :
    TwoTransientThenSuccess(p) =>
      LET parsed == {i \in 1..3 : inv[p].hist[i].at = "generate_report"} IN
        /\ CountType(p, RETRY_EVENT) = 2
        /\ RetriesOf(p, 1) # {} /\ RetriesOf(p, 2) # {}
        /\ CountMsg(p, "Start parsing report") = Cardinality(parsed)
        /\ CountMsg(p, "Result finished parsing") = 1
        /\ CountType(p, PARSING_EVENT) = Cardinality(parsed) + 1
        /\ CountType(p, PARSING_EVENT) \in 2..4
        /\ events[p][Len(events[p]) - 1] = ParsedEvent(Len(inv[p].result.matches))
        /\ CountType(p, COMPLETED_EVENT) = 1
        /\ CountType(p, FAILED_EVENT) = 0
        /\ dbJob.status = COMPLETED_STATUS
        /\ inv[p].ret = inv[p].result.url
        /\ inv[p].ret = GoodUrl

\* Both transient errors hit the parsing step, so four PARSING events.
C6_Witness ==
  \E p \in Procs :
    /\ TwoTransientThenSuccess(p)
    /\ inv[p].hist[1].at = "generate_report"
    /\ inv[p].hist[2].at = "generate_report"
    /\ CountType(p, PARSING_EVENT) = 4

\* The i-th attempt ended the loop: nothing was recorded or waited for it,
\* no attempt followed, and the run fails without result.
AbortedAt(p, i) ==
  /\ i = Len(inv[p].hist)
  /\ inv[p].hist[i].attempt = i
  /\ inv[p].attempt = i
  /\ Len(inv[p].sched) = i
  /\ ~inv[p].exhausted
  /\ inv[p].pc \in {"finalize", "save", "done"}
  /\ RetriesOf(p, i) = {}
  /\ CountType(p, RETRY_EVENT) = i - 1
  /\ inv[p].slept = WaitsBefore(p, i)
  /\ inv[p].result = NoResult
  /\ inv[p].ret = "None"
  /\ inv[p].pc = "done" =>
       /\ dbJob.status = FAILED_STATUS
       /\ CountType(p, FAILED_EVENT) = 1
       /\ CountType(p, COMPLETED_EVENT) = 0

\* C7: an attempt that ends with an empty response while the pinger reports
\* NORMAL load ends the loop: no RETRY event for it, no wait, no further
\* attempt, and the run finalizes FAILED without result.
C7_EmptyNormalAborts ==
  \A p \in Procs :
    \A i \in DOMAIN inv[p].hist :
      (inv[p].hist[i].exc = EmptyResponse /\ inv[p].hist[i].load = "NORMAL") =>
        AbortedAt(p, i)

\* A second attempt got an empty response under normal load; the run is over.
C7_Witness ==
  \E p \in Procs :
    /\ inv[p].pc = "done"
    /\ Len(inv[p].hist) = 2
    /\ inv[p].hist[2].exc = EmptyResponse
    /\ inv[p].hist[2].load = "NORMAL"

\* The i-th attempt was recorded as retried: one RETRY event with its number,
\* its error and the wait the scheduler supplied for it (none yet while the
\* handler has just decided).
RetryLogged(p, i) ==
  IF inv[p].pc = "retry" /\ i = Len(inv[p].hist)
  THEN RetriesOf(p, i) = {}
  ELSE /\ Cardinality(RetriesOf(p, i)) = 1
       /\ \A k \in RetriesOf(p, i) :
            events[p][k] = RetryEvent(i, inv[p].hist[i].exc, inv[p].sched[i])

EmptyUnderLoad(p, i) ==
  /\ inv[p].hist[i].exc = EmptyResponse
  /\ inv[p].hist[i].load \in {"UNDER_LOAD", "DOWN"}

\* C8 as claimed: every attempt that ends with an empty response while the
\* pinger reports UNDER_LOAD or DOWN gets a RETRY event and is followed by
\* another attempt, the last attempt the scheduler yields included.
C8_AlwaysAnotherAttempt ==
  \A p \in Procs :
    \A i \in DOMAIN inv[p].hist :
      (inv[p].pc = "done" /\ EmptyUnderLoad(p, i)) =>
        /\ RetriesOf(p, i) # {}
        /\ Len(inv[p].hist) > i

\* C8 amended: every attempt that ends with an empty response while the
\* pinger reports UNDER_LOAD or DOWN gets a RETRY event and its wait, and is
\* followed by another attempt whenever the scheduler yields one; after the
\* last attempt the scheduler yields, the event is appended and the wait
\* taken, and the run then finalizes FAILED without result.
C8_EmptyUnderLoadRetries ==
  \A p \in Procs :
    \A i \in DOMAIN inv[p].hist :
      EmptyUnderLoad(p, i) =>
        /\ RetryLogged(p, i)
        /\ inv[p].pc \notin {"retry", "sleep"} \/ i < Len(inv[p].hist) =>
             inv[p].slept >= WaitsBefore(p, i + 1)
        /\ inv[p].pc \in {"finalize", "save", "done"} =>
             \/ Len(inv[p].hist) > i
             \/ /\ inv[p].exhausted
                /\ i = Len(inv[p].sched)
                /\ inv[p].result = NoResult
                /\ inv[p].pc = "done" =>
                     (dbJob.status = FAILED_STATUS /\ inv[p].ret = "None")

\* An empty response under load was followed by another attempt, and an
\* empty response with the service down on the last attempt by the failure.
C8_Witness ==
  \E p \in Procs :
    /\ inv[p].pc = "done"
    /\ inv[p].exhausted
    /\ Len(inv[p].hist) >= 2
    /\ EmptyUnderLoad(p, 1)
    /\ inv[p].hist[1].load = "UNDER_LOAD"
    /\ EmptyUnderLoad(p, Len(inv[p].hist))
    /\ inv[p].hist[Len(inv[p].hist)].load = "DOWN"

\* C9: an attempt that ends with a fatal MOSS error or an exception of no
\* handled class ends the loop on whichever attempt it occurs: no RETRY event
\* for it, no wait, no further attempt, the run fails without result; on the
\* first attempt that is no RETRY event at all and one FAILED event.
C9_FatalAndUnknownAbort ==
  \A p \in Procs :
    \A i \in DOMAIN inv[p].hist :
      inv[p].hist[i].exc \in {FatalMossException, OtherException} =>
        /\ AbortedAt(p, i)
        /\ i = 1 => CountType(p, RETRY_EVENT) = 0
        /\ (i = 1 /\ inv[p].pc = "done") =>
             events[p][Len(events[p])] = Event(FAILED_EVENT, "")

\* An exception of no handled class on a second attempt; the run is over.
C9_Witness ==
  \E p \in Procs :
    /\ inv[p].pc = "done"
    /\ Len(inv[p].hist) = 2
    /\ inv[p].hist[2].exc = OtherException
    /\ dbJob.status = FAILED_STATUS

InAttempt == {"try", "generate_url", "parsing", "generate_report", "except"}

\* C10: every attempt that ends with a socket error or a recoverable MOSS
\* error gets exactly one RETRY event with its attempt number, its error and
\* the wait the scheduler supplied; the event is appended before the wait
\* begins, every earlier wait is over before an attempt starts, and the run
\* has as many RETRY events as attempts that ended with a retry decision.
C10_RetryRecordedThenWaited ==
  \A p \in Procs :
    LET h == inv[p].hist
        decided == {i \in DOMAIN h : h[i].decision = "retry"}
    IN
      /\ \A i \in DOMAIN h :
           h[i].exc \in {RecoverableMossException, SocketError} =>
             (i \in decided /\ RetryLogged(p, i))
      /\ inv[p].pc = "sleep" =>
           /\ events[p][Len(events[p])] =
                RetryEvent(inv[p].attempt, inv[p].error, inv[p].time_to_sleep)
           /\ inv[p].slept = WaitsBefore(p, inv[p].attempt)
      /\ inv[p].pc = "loop" => inv[p].slept = Sum(inv[p].sched)
      /\ inv[p].pc \in InAttempt \cup {"retry"} =>
           inv[p].slept = WaitsBefore(p, inv[p].attempt)
      /\ CountType(p, RETRY_EVENT) =
           Cardinality(decided) - (IF inv[p].pc = "retry" THEN 1 ELSE 0)

\* A run over after a recoverable error with a positive wait and a socket
\* error, both recorded.
C10_Witness ==
  \E p \in Procs :
    /\ inv[p].pc = "done"
    /\ Len(inv[p].hist) = 3
    /\ inv[p].hist[1].exc = SocketError
    /\ inv[p].hist[2].exc = RecoverableMossException
    /\ inv[p].sched[2] > 0
    /\ CountType(p, RETRY_EVENT) = 2
    /\ inv[p].slept = inv[p].sched[1] + inv[p].sched[2]

\* C11: whenever an invocation appends a JobEvent, the persisted status is
\* the status the invocation holds at that moment; so a COMPLETED event is
\* appended only with COMPLETED persisted and a FAILED event only with FAILED
\* persisted.
C11_EventAfterDurableStatus ==
  [][\A p \in Procs :
       events'[p] # events[p] => dbJob'.status = inv'[p].job.status]_vars

\* The submission_ids registered for the job of the run.
OwnNames == {s.submission_id : s \in {x \in Submissions : x.job = JobId}}

\* C12: once a run has stored its result, the Match table holds one row per
\* raw match whose two names both belong to Submissions of the run's own
\* job, in the order of the raw matches, and no other row; every row
\* references two Submissions of that job; raw matches with a name that does
\* not resolve are dropped and the run still completes.
C12_MatchIffBothResolve ==
  \A p \in Procs :
    (inv[p].pc \in {"save", "done"} /\ inv[p].result # NoResult) =>
      LET ms == inv[p].result.matches
          ok == {i \in DOMAIN ms : ms[i].name_1 \in OwnNames /\ ms[i].name_2 \in OwnNames}
      IN
        /\ Len(matches) = Cardinality(ok)
        /\ \A k \in DOMAIN matches :
             /\ matches[k].job = JobId
             /\ matches[k].first_submission \in Submissions
             /\ matches[k].second_submission \in Submissions
             /\ matches[k].first_submission.job = JobId
             /\ matches[k].second_submission.job = JobId
             /\ \E i \in ok :
                  /\ matches[k].first_submission.submission_id = ms[i].name_1
                  /\ matches[k].second_submission.submission_id = ms[i].name_2
        /\ \A i \in ok :
             \E k \in DOMAIN matches :
               /\ matches[k].first_submission.submission_id = ms[i].name_1
               /\ matches[k].second_submission.submission_id = ms[i].name_2
        /\ mossResults = <<[job |-> JobId, url |-> inv[p].result.url]>>
        /\ inv[p].pc = "done" =>
             (dbJob.status = COMPLETED_STATUS /\ inv[p].ret = inv[p].result.url)

\* A raw match naming a submission of another job was dropped, and the run
\* completed.
C12_Witness ==
  \E p \in Procs :
    /\ inv[p].pc = "done"
    /\ inv[p].result # NoResult
    /\ inv[p].result.matches = <<[name_1 |-> "a", name_2 |-> "c"]>>
    /\ matches = <<>>
    /\ dbJob.status = COMPLETED_STATUS

\* C13: no failure raised during an attempt escapes process_job: an
\* invocation that stopped with an exception has at least been through the
\* finalization (its completion date is set), so it never stops with the job
\* left in UPLOADING, PROCESSING or PARSING by an attempt.
C13_NoEscapeFromAttempt ==
  \A p \in Procs :
    inv[p].pc = "raised" => inv[p].job.completion_date # Null

\* The event log of a run whose two attempts each ended with a socket error
\* before any callback fired, and which then failed.
ExhaustionLog ==
  <<RetryEvent(1, SocketError, 0), RetryEvent(2, SocketError, MinRetryTime),
    Event(FAILED_EVENT, "")>>

\* A run that failed because retry() yielded no further attempt leaves
\* ExhaustionLog.
C14_ExhaustedRunLog ==
  \E p \in Procs :
    /\ inv[p].pc = "done"
    /\ inv[p].exhausted
    /\ dbJob.status = FAILED_STATUS
    /\ events[p] = ExhaustionLog

\* C14: the event log tells the cause of a FAILED run: a finished run whose
\* log is the log an exhausted run leaves has itself failed by exhaustion of
\* the backoff budget, not by an abort-classified error.
C14_LogTellsExhaustionFromAbort ==
  \A p \in Procs :
    (inv[p].pc = "done" /\ dbJob.status = FAILED_STATUS
       /\ events[p] = ExhaustionLog) => inv[p].exhausted

\* C15: the waits an invocation has taken never add up to more than
\* MAX_RETRY_DURATION: the waits retry() has yielded stay within the budget,
\* the invocation has slept exactly the yielded waits (all of them, or all
\* but the one of the attempt still in progress or aborted), and once
\* retry() has ended no attempt is made.
C15_WaitsWithinBudget ==
  \A p \in Procs :
    /\ Sum(inv[p].sched) <= MaxRetryDuration
    /\ inv[p].slept <= MaxRetryDuration
    /\ inv[p].slept = IF inv[p].pc = "loop" \/ inv[p].exhausted
                      THEN Sum(inv[p].sched)
                      ELSE WaitsBefore(p, Len(inv[p].sched))
    /\ inv[p].exhausted =>
         /\ inv[p].pc \in {"finalize", "save", "done"}
         /\ inv[p].attempt = Len(inv[p].sched)
         /\ inv[p].result = NoResult

\* A run has used the whole budget and retry() has ended.
C15_Witness ==
  \E p \in Procs :
    /\ inv[p].pc = "done"
    /\ inv[p].exhausted
    /\ Len(inv[p].sched) >= 2
    /\ inv[p].slept = MaxRetryDuration

\* The place of a status in QUEUED, UPLOADING, PROCESSING, PARSING, terminal.
Rank(status) ==
  CASE status = INQUEUE_STATUS -> 0
    [] status = UPLOADING_STATUS -> 1
    [] status = PROCESSING_STATUS -> 2
    [] status = PARSING_STATUS -> 3
    [] OTHER -> 4

\* C16 as claimed: no write sets the persisted status back to an earlier
\* state of QUEUED, UPLOADING, PROCESSING, PARSING, COMPLETED | FAILED.
C16_StatusOnlyForward ==
  [][Rank(dbJob'.status) >= Rank(dbJob.status)]_vars

\* C16: the persisted status moves forward along the order, with one
\* exception: a retry that starts without a valid url writes UPLOADING again,
\* which sets the status back from PROCESSING or PARSING when the failed
\* attempt had got that far without obtaining a valid url. No other write
\* sets the status back, and COMPLETED and FAILED are never left.
C16_ForwardExceptRetriedUpload ==
  [][/\ \/ Rank(dbJob'.status) >= Rank(dbJob.status)
        \/ /\ dbJob.status \in {PROCESSING_STATUS, PARSING_STATUS}
           /\ dbJob'.status = UPLOADING_STATUS
           /\ \E p \in Procs :
                /\ inv[p].pc = "try"
                /\ inv[p].attempt >= 2
                /\ ~is_valid_moss_url(inv[p].url)
                /\ inv'[p].pc = "generate_url"
     /\ dbJob.status \in Terminal => dbJob'.status = dbJob.status]_vars

\* A retry has written UPLOADING after an earlier attempt had reached
\* PROCESSING.
C16_Witness ==
  \E p \in Procs :
    /\ inv[p].attempt >= 2
    /\ inv[p].pc = "generate_url"
    /\ inv[p].stage = 0
    /\ dbJob.status = UPLOADING_STATUS
    /\ CountType(p, PROCESSING_EVENT) >= 1

\* C17: once an invocation holds a valid url it keeps it: no later step
\* calls MOSS.generate_url again or writes UPLOADING or PROCESSING, and an
\* attempt that starts goes straight to the parsing step, which fetches the
\* report for that url.
C17_ValidUrlNeverRegenerated ==
  [][\A p \in Procs :
       is_valid_moss_url(inv[p].url) =>
         /\ inv'[p].url = inv[p].url
         /\ inv'[p].calls.create = inv[p].calls.create
         /\ dbJob'.status # dbJob.status =>
              dbJob'.status \notin {UPLOADING_STATUS, PROCESSING_STATUS}
         /\ inv[p].pc = "try" => inv'[p].pc = "parsing"
         /\ inv[p].pc = "parsing" =>
              /\ inv'[p].pc = "generate_report"
              /\ dbJob'.status = PARSING_STATUS
              /\ inv'[p].calls.fetch = inv[p].calls.fetch + 1]_vars

\* A second fetch for the url of the first attempt, after one upload.
C17_Witness ==
  \E p \in Procs :
    /\ is_valid_moss_url(inv[p].url)
    /\ inv[p].attempt >= 2
    /\ inv[p].pc = "generate_report"
    /\ inv[p].calls.create = 1
    /\ inv[p].calls.fetch >= 2
    /\ dbJob.status = PARSING_STATUS

C19_CompletionDateOnlyWithTerminalStatus ==
  dbJob.completion_date # Null => dbJob.status \in Terminal

\* A step in which MOSS.generate_url fires a callback of invocation p.
CallbackStep(p) ==
  /\ inv[p].pc = "generate_url"
  /\ inv'[p].pc = "generate_url"
  /\ inv'[p].stage = inv[p].stage + 1

\* C20 as claimed: a callback appends a JobEvent and changes neither the
\* job, in memory or persisted, nor anything the retry decision depends on.
C20_CallbacksOnlyAppendEvents ==
  [][\A p \in Procs :
       CallbackStep(p) =>
         /\ dbJob' = dbJob
         /\ inv'[p] = [inv[p] EXCEPT !.stage = @ + 1]
         /\ Len(events'[p]) = Len(events[p]) + 1]_vars

\* C20: each callback appends exactly one JobEvent; upload-start,
\* upload-finish and processing-finish change nothing else; processing-start
\* also sets the status to PROCESSING and saves the job. None changes
\* another job field, the url, the result, or what the retry or abort
\* decision of the attempt depends on.
C20_OnlyProcessingStartWritesStatus ==
  [][\A p \in Procs :
       CallbackStep(p) =>
         LET k == inv'[p].stage IN
           /\ Len(events'[p]) = Len(events[p]) + 1
           /\ SubSeq(events'[p], 1, Len(events[p])) = events[p]
           /\ events'[p][Len(events'[p])].type =
                (IF k <= 2 THEN UPLOADING_EVENT ELSE PROCESSING_EVENT)
           /\ inv'[p] = [inv[p] EXCEPT
                           !.stage = k,
                           !.job.status = IF k = 3 THEN PROCESSING_STATUS ELSE @]
           /\ dbJob' = (IF k = 3 THEN inv'[p].job ELSE dbJob)
           /\ UNCHANGED <<fs, mossResults, matches>>]_vars

\* The processing-start callback has fired: PROCESSING is persisted and its
\* event is the last of the log.
C20_Witness ==
  \E p \in Procs :
    /\ inv[p].pc = "generate_url"
    /\ inv[p].stage = 3
    /\ dbJob.status = PROCESSING_STATUS
    /\ events[p] # <<>>
    /\ events[p][Len(events[p])] =
         Event(PROCESSING_EVENT, "Started generating similarity report")

====
